---- MODULE Spec2Model ----
(***************************************************************************)
(* The resource handlers of terraform-provider-solidserver for the         *)
(* application pool, the DNS forward zone and the IP-MAC mapping, run      *)
(* against a model of the appliance's REST endpoints.                      *)
(*                                                                         *)
(* Strings the handlers look into (forward mode, forwarders, MAC, the     *)
(* decimal form of integers) are sequences of one-character strings;      *)
(* strings they only pass along (names, oids, messages) are TLA+ strings. *)
(***************************************************************************)
EXTENDS Integers, Sequences, FiniteSets, TLC

VARIABLES kind, version, d, srv, issued, last, hist, run

vars == <<kind, version, d, srv, issued, last, hist, run>>

(***************************************************************************)
(* Bounds of the model.                                                    *)
(***************************************************************************)
\* how many oids the appliance hands out in one behaviour
MaxOid == 1
\* how many forwarders a configuration lists at most
MaxForwarders == 2

\* the first appliance version that knows application pools
MinPoolVersion == 710

(***************************************************************************)
(* Go strings.                                                             *)
(***************************************************************************)
Upper == <<"A", "B", "F", "I", "L", "N", "O", "R", "S", "T", "Y">>
Lower == <<"a", "b", "f", "i", "l", "n", "o", "r", "s", "t", "y">>

\* strings.ToLower on one character
LowerChar(c) ==
    IF \E i \in DOMAIN Upper : Upper[i] = c
    THEN Lower[CHOOSE i \in DOMAIN Upper : Upper[i] = c]
    ELSE c

\* strings.ToLower
ToLower(s) == [i \in DOMAIN s |-> LowerChar(s[i])]

\* strings.TrimSuffix
TrimSuffix(s, suffix) ==
    IF Len(s) >= Len(suffix) /\ SubSeq(s, Len(s) - Len(suffix) + 1, Len(s)) = suffix
    THEN SubSeq(s, 1, Len(s) - Len(suffix))
    ELSE s

\* strings.Split(s, sep) for a one-character separator: always at least one piece
RECURSIVE Split(_, _)
Split(s, sep) ==
    IF \A i \in DOMAIN s : s[i] # sep
    THEN <<s>>
    ELSE LET p == CHOOSE i \in DOMAIN s :
                      s[i] = sep /\ \A j \in 1..(i - 1) : s[j] # sep
         IN  <<SubSeq(s, 1, p - 1)>> \o Split(SubSeq(s, p + 1, Len(s)), sep)

Digits == <<"0", "1", "2", "3", "4", "5", "6", "7", "8", "9">>

\* strconv.Itoa
RECURSIVE Itoa(_)
Itoa(n) ==
    IF n < 0 THEN <<"-">> \o Itoa(0 - n)
    ELSE IF n < 10 THEN <<Digits[n + 1]>>
    ELSE Itoa(n \div 10) \o <<Digits[(n % 10) + 1]>>

IsDigit(c) == \E i \in DOMAIN Digits : Digits[i] = c
DigitValue(c) == (CHOOSE i \in DOMAIN Digits : Digits[i] = c) - 1

RECURSIVE ParseDigits(_, _)
ParseDigits(s, acc) ==
    IF s = <<>> THEN acc ELSE ParseDigits(Tail(s), acc * 10 + DigitValue(Head(s)))

\* strconv.Atoi with its error dropped (value, _ := strconv.Atoi(s)): 0 on a
\* string that is no decimal integer
Atoi(s) ==
    LET neg  == s # <<>> /\ Head(s) = "-"
        body == IF s # <<>> /\ Head(s) \in {"-", "+"} THEN Tail(s) ELSE s
    IN  IF body = <<>> \/ \E i \in DOMAIN body : ~IsDigit(body[i])
        THEN 0
        ELSE IF neg THEN 0 - ParseDigits(body, 0) ELSE ParseDigits(body, 0)

(***************************************************************************)
(* JSON: the body is an array of objects (buf); an object maps keys to     *)
(* typed values.                                                           *)
(***************************************************************************)
Str(v) == [t |-> "string", v |-> v]
\* a JSON number, kept by its text
Num(text) == [t |-> "number", v |-> text]
EmptyObject == [k \in {} |-> Str("")]

\* v, ok := obj[key].(string)
IsString(obj, key) == key \in DOMAIN obj /\ obj[key].t = "string"

\* the response of s.Request: transport error, status code, decoded body
NoError == ""
Response(status, buf) == [err |-> NoError, status |-> status, buf |-> buf]
TransportFailure(e) == [err |-> e, status |-> 0, buf |-> <<>>]
NoResponse == [err |-> NoError, status |-> 0, buf |-> <<>>]

\* what a handler returns: nil, an error, or no return at all (a failed
\* single-value type assertion panics)
\* an error: its text, what it names, and the remote message it carries
Diag(text, subject, remote) == [text |-> text, subject |-> subject, remote |-> remote]
NoDiag == Diag("", <<>>, <<>>)
\* diag.FromErr(err) and "return nil, err"
FromErr(err) == Diag(err, <<>>, <<>>)
Ok(rd) == [d |-> rd, result |-> "ok", diag |-> NoDiag]
Failed(rd, msg) == [d |-> rd, result |-> "error", diag |-> msg]
Panic(rd) == [d |-> rd, result |-> "panic", diag |-> NoDiag]

\* d.SetId
SetId(rd, id) == [rd EXCEPT !.id = id]

NotSupported == Diag("Object not supported in this SOLIDserver version", <<>>, <<>>)

\* the same from ImportState, an error and no diagnostic
ImportNotSupported ==
    Diag("SOLIDServer - Object not supported in this SOLIDserver version", <<>>, <<>>)

\* d.Set(key, value) on a key of the schema
Set(rd, key, value) == [rd EXCEPT !.f[key] = value]

(***************************************************************************)
(* resource_application_pool.go                                            *)
(***************************************************************************)
\* the parameters Create and Update share
applicationpoolParameters(rd) ==
    LET common == [name                |-> rd.f.name,
                   appapplication_name |-> rd.f.application,
                   appapplication_fqdn |-> rd.f.fqdn,
                   type                |-> rd.f.ip_version,
                   lb_mode             |-> rd.f.lb_mode]
        affinity == IF rd.f.affinity = FALSE
                    THEN [affinity_state |-> "0"]
                    ELSE [affinity_state        |-> "1",
                          affinity_session_time |-> Itoa(rd.f.affinity_session_duration)]
        nodes    == IF rd.f.lb_mode = "latency"
                    THEN [best_active_nodes |-> Itoa(rd.f.best_active_nodes)]
                    ELSE EmptyObject
    IN  common @@ affinity @@ nodes

applicationpoolCreateRequest(rd) ==
    [verb |-> "post", path |-> "rest/app_pool_add",
     params |-> [add_flag |-> "new_only"] @@ applicationpoolParameters(rd)]

applicationpoolUpdateRequest(rd) ==
    [verb |-> "put", path |-> "rest/app_pool_add",
     params |-> [apppool_id |-> rd.id, add_flag |-> "edit_only"]
                @@ applicationpoolParameters(rd)]

applicationpoolDeleteRequest(rd) ==
    [verb |-> "delete", path |-> "rest/app_pool_delete",
     params |-> [apppool_id |-> rd.id]]

applicationpoolInfoRequest(rd) ==
    [verb |-> "get", path |-> "rest/app_pool_info",
     params |-> [apppool_id |-> rd.id]]

resourceapplicationpoolCreate(rd, ver, resp) ==
    IF ver < MinPoolVersion THEN Failed(rd, NotSupported)
    ELSE IF resp.err # NoError THEN Failed(rd, FromErr(resp.err))
    ELSE IF (resp.status = 200 \/ resp.status = 201) /\ Len(resp.buf) > 0
            /\ IsString(resp.buf[1], "ret_oid")
    THEN Ok(SetId(rd, resp.buf[1]["ret_oid"].v))
    ELSE IF Len(resp.buf) > 0 /\ IsString(resp.buf[1], "errmsg")
    THEN Failed(rd, Diag("Unable to create application pool", <<rd.f.name>>,
                          <<resp.buf[1]["errmsg"].v>>))
    ELSE Failed(rd, Diag("Unable to create application pool", <<rd.f.name>>, <<>>))

resourceapplicationpoolUpdate(rd, ver, resp) ==
    IF ver < MinPoolVersion THEN Failed(rd, NotSupported)
    ELSE IF resp.err # NoError THEN Failed(rd, FromErr(resp.err))
    ELSE IF (resp.status = 200 \/ resp.status = 201) /\ Len(resp.buf) > 0
            /\ IsString(resp.buf[1], "ret_oid")
    THEN Ok(SetId(rd, resp.buf[1]["ret_oid"].v))
    ELSE IF Len(resp.buf) > 0 /\ IsString(resp.buf[1], "errmsg")
    THEN Failed(rd, Diag("Unable to update application pool", <<rd.f.name>>,
                          <<resp.buf[1]["errmsg"].v>>))
    ELSE Failed(rd, Diag("Unable to update application pool", <<rd.f.name>>, <<>>))

\* Delete as it would be without its test of s.Version
resourceapplicationpoolDelete_AnyVersion(rd, ver, resp) ==
    IF resp.err # NoError THEN Failed(rd, FromErr(resp.err))
    ELSE IF resp.status # 200 /\ resp.status # 204
    THEN IF Len(resp.buf) > 0 /\ IsString(resp.buf[1], "errmsg")
         THEN Failed(rd, Diag("Unable to delete application pool", <<rd.f.name>>,
                          <<resp.buf[1]["errmsg"].v>>))
         ELSE Failed(rd, Diag("Unable to delete application pool", <<rd.f.name>>, <<>>))
    ELSE Ok(SetId(rd, ""))

resourceapplicationpoolDelete(rd, ver, resp) ==
    IF ver < MinPoolVersion THEN Failed(rd, NotSupported)
    ELSE IF resp.err # NoError THEN Failed(rd, FromErr(resp.err))
    ELSE IF resp.status # 200 /\ resp.status # 204
    THEN IF Len(resp.buf) > 0 /\ IsString(resp.buf[1], "errmsg")
         THEN Failed(rd, Diag("Unable to delete application pool", <<rd.f.name>>,
                          <<resp.buf[1]["errmsg"].v>>))
         ELSE Failed(rd, Diag("Unable to delete application pool", <<rd.f.name>>, <<>>))
    ELSE Ok(SetId(rd, ""))

\* the single-value assertions buf[0][key].(string) Read and Import evaluate
\* on a status-200 answer: one that fails panics
applicationpoolAsserted(o) ==
    /\ \A key \in {"apppool_name", "appapplication_name", "appapplication_fqdn",
                   "apppool_lb_mode", "apppool_affinity_state"} : IsString(o, key)
    /\ o["apppool_affinity_state"].v # "0" => IsString(o, "apppool_affinity_session_time")
    /\ IsString(o, "apppool_best_active_nodes")

\* the four fields Read and Import set the same way
applicationpoolSetNames(rd, o) ==
    Set(Set(Set(Set(rd, "name", o["apppool_name"].v),
                "application", o["appapplication_name"].v),
            "fqdn", o["appapplication_fqdn"].v),
        "lb_mode", o["apppool_lb_mode"].v)

resourceapplicationpoolRead(rd, ver, resp) ==
    IF ver < MinPoolVersion THEN Failed(rd, NotSupported)
    ELSE IF resp.err # NoError THEN Failed(rd, FromErr(resp.err))
    ELSE IF resp.status = 200 /\ Len(resp.buf) > 0
    THEN LET o  == resp.buf[1]
             r1 == applicationpoolSetNames(rd, o)
             r2 == IF o["apppool_affinity_state"].v = "0"
                   THEN Set(r1, "affinity", FALSE)
                   ELSE Set(Set(r1, "affinity", TRUE), "affinity_session_duration",
                            Atoi(o["apppool_affinity_session_time"].v))
             r3 == IF o["apppool_best_active_nodes"].v # <<>>
                   THEN Set(r2, "best_active_nodes",
                            Atoi(o["apppool_best_active_nodes"].v))
                   ELSE r2
         IN  IF applicationpoolAsserted(o) THEN Ok(r3) ELSE Panic(rd)
    ELSE Failed(rd, Diag("Unable to find application pool", <<rd.f.name>>, <<>>))

\* Import writes the affinity flag under "affinity_state", which is no key of
\* the schema: d.Set returns an error the handler drops, and nothing is set
resourceapplicationpoolImportState(rd, ver, resp) ==
    IF ver < MinPoolVersion THEN Failed(rd, ImportNotSupported)
    ELSE IF resp.err # NoError THEN Failed(rd, FromErr(resp.err))
    ELSE IF resp.status = 200 /\ Len(resp.buf) > 0
    THEN LET o  == resp.buf[1]
             r1 == applicationpoolSetNames(rd, o)
             r2 == IF o["apppool_affinity_state"].v = "0"
                   THEN r1
                   ELSE Set(r1, "affinity_session_duration",
                            Atoi(o["apppool_affinity_session_time"].v))
             r3 == IF o["apppool_best_active_nodes"].v # <<>>
                   THEN Set(r2, "best_active_nodes",
                            Atoi(o["apppool_best_active_nodes"].v))
                   ELSE Set(r2, "best_active_nodes", 0)
         IN  IF applicationpoolAsserted(o) THEN Ok(r3) ELSE Panic(rd)
    ELSE Failed(rd, Diag("Unable to find and import application pool (oid)", <<rd.id>>, <<>>))

(***************************************************************************)
(* Helpers of the provider the two files below call.                       *)
(***************************************************************************)
\* toStringArray: []interface{} to []string, element by element
toStringArray(in) == [i \in DOMAIN in |-> in[i]]

\* toStringArrayInterface: []string to []interface{}, element by element
toStringArrayInterface(in) == [i \in DOMAIN in |-> in[i]]

\* urlfromclassparams: a url.Values (key to list of values) holding each
\* class parameter once
urlfromclassparams(parameters) == [k \in DOMAIN parameters |-> <<parameters[k]>>]

\* the keys class parameters use here, in the byte order url.Values.Encode
\* sorts keys by
ClassKeys == <<"dnsptr", "env">>

\* url.Values.Encode: "k=v" for every value of every key, keys sorted; the
\* query string is kept as its sequence of <<key, value>> pairs
RECURSIVE EncodeFrom(_, _)
EncodeFrom(values, i) ==
    IF i > Len(ClassKeys) THEN <<>>
    ELSE LET k == ClassKeys[i]
         IN  (IF k \in DOMAIN values
              THEN [j \in DOMAIN values[k] |-> <<k, values[k][j]>>]
              ELSE <<>>) \o EncodeFrom(values, i + 1)

Encode(values) == EncodeFrom(values, 1)

\* url.ParseQuery: key to the list of its values, in the order they appear
RECURSIVE ParseQuery(_)
ParseQuery(query) ==
    IF query = <<>> THEN EmptyObject
    ELSE LET rest == ParseQuery(Tail(query))
             k    == Head(query)[1]
             v    == Head(query)[2]
         IN  IF k \in DOMAIN rest
             THEN [rest EXCEPT ![k] = <<v>> \o @]
             ELSE (k :> <<v>>) @@ rest

\* delete(m, key)
DeleteKey(m, key) == [k \in DOMAIN m \ {key} |-> m[k]]

(***************************************************************************)
(* The DNS forward zone resource (src/unnamed/part_000).                   *)
(***************************************************************************)
\* fwdList: every forwarder followed by ";"
RECURSIVE fwdList(_)
fwdList(forwarders) ==
    IF forwarders = <<>> THEN <<>>
    ELSE Head(forwarders) \o <<";">> \o fwdList(Tail(forwarders))

\* the parameters Create and Update share
dnsforwardzoneParameters(rd) ==
    [dnszone_class_name       |-> rd.f.class,
     dnszone_forward          |-> ToLower(rd.f.forward),
     dnszone_forwarders       |-> fwdList(toStringArray(rd.f.forwarders)),
     dnszone_class_parameters |-> Encode(urlfromclassparams(rd.f.class_parameters))]

dnsforwardzoneCreateRequest(rd) ==
    [verb |-> "post", path |-> "rest/dns_zone_add",
     params |-> [add_flag     |-> "new_only",
                 dns_name     |-> rd.f.dnsserver,
                 dnszone_name |-> rd.f.name,
                 dnszone_type |-> "forward"]
                @@ (IF rd.f.dnsview # "#"
                    THEN [dnsview_name |-> rd.f.dnsview] ELSE EmptyObject)
                @@ dnsforwardzoneParameters(rd)]

\* the Update request as it would be with Create's add_flag left in
dnsforwardzoneUpdateRequest_NewOnly(rd) ==
    [verb |-> "put", path |-> "rest/dns_zone_add",
     params |-> [dnszone_id |-> rd.id, add_flag |-> "new_only"]
                @@ dnsforwardzoneParameters(rd)]

dnsforwardzoneUpdateRequest(rd) ==
    [verb |-> "put", path |-> "rest/dns_zone_add",
     params |-> [dnszone_id |-> rd.id, add_flag |-> "edit_only"]
                @@ dnsforwardzoneParameters(rd)]

dnsforwardzoneDeleteRequest(rd) ==
    [verb |-> "delete", path |-> "rest/dns_zone_delete",
     params |-> [dnszone_id |-> rd.id]]

dnsforwardzoneInfoRequest(rd) ==
    [verb |-> "get", path |-> "rest/dns_zone_info",
     params |-> [dnszone_id |-> rd.id]]

resourcednsforwardzoneCreate(rd, resp) ==
    IF resp.err # NoError THEN Failed(rd, FromErr(resp.err))
    ELSE IF (resp.status = 200 \/ resp.status = 201) /\ Len(resp.buf) > 0
            /\ IsString(resp.buf[1], "ret_oid")
    THEN Ok(SetId(rd, resp.buf[1]["ret_oid"].v))
    ELSE IF Len(resp.buf) > 0 /\ IsString(resp.buf[1], "errmsg")
    THEN Failed(rd, Diag("Unable to create DNS forward zone", <<rd.f.name>>,
                          <<resp.buf[1]["errmsg"].v>>))
    ELSE Failed(rd, Diag("Unable to create DNS forward zone", <<rd.f.name>>, <<>>))

resourcednsforwardzoneUpdate(rd, resp) ==
    IF resp.err # NoError THEN Failed(rd, FromErr(resp.err))
    ELSE IF (resp.status = 200 \/ resp.status = 201) /\ Len(resp.buf) > 0
            /\ IsString(resp.buf[1], "ret_oid")
    THEN Ok(SetId(rd, resp.buf[1]["ret_oid"].v))
    ELSE IF Len(resp.buf) > 0 /\ IsString(resp.buf[1], "errmsg")
    THEN Failed(rd, Diag("Unable to update DNS forward zone", <<rd.f.name>>,
                          <<resp.buf[1]["errmsg"].v>>))
    ELSE Failed(rd, Diag("Unable to update DNS forward zone", <<rd.f.name>>, <<>>))

\* Delete as it would be without its d.SetId("")
resourcednsforwardzoneDelete_KeepsId(rd, resp) ==
    IF resp.err # NoError THEN Failed(rd, FromErr(resp.err))
    ELSE IF resp.status # 200 /\ resp.status # 204
    THEN IF Len(resp.buf) > 0 /\ IsString(resp.buf[1], "errmsg")
         THEN Failed(rd, Diag("Unable to delete DNS forward zone", <<rd.f.name>>,
                          <<resp.buf[1]["errmsg"].v>>))
         ELSE Failed(rd, Diag("Unable to delete DNS forward zone", <<rd.f.name>>, <<>>))
    ELSE Ok(rd)

resourcednsforwardzoneDelete(rd, resp) ==
    IF resp.err # NoError THEN Failed(rd, FromErr(resp.err))
    ELSE IF resp.status # 200 /\ resp.status # 204
    THEN IF Len(resp.buf) > 0 /\ IsString(resp.buf[1], "errmsg")
         THEN Failed(rd, Diag("Unable to delete DNS forward zone", <<rd.f.name>>,
                          <<resp.buf[1]["errmsg"].v>>))
         ELSE Failed(rd, Diag("Unable to delete DNS forward zone", <<rd.f.name>>, <<>>))
    ELSE Ok(SetId(rd, ""))

\* the single-value assertions buf[0][key].(string) of Read
dnsforwardzoneAsserted(o) ==
    \A key \in {"dns_name", "dnsview_name", "dnszone_name", "dnszone_forward",
                "dnszone_forwarders", "dnszone_class_name",
                "dnszone_class_parameters"} : IsString(o, key)

\* computedClassParameters as it would be without its delete of dnsptr
computedClassParameters_KeepsDnsptr(current, encoded) ==
    LET retrieved == ParseQuery(encoded)
    IN  [ck \in DOMAIN current |->
            IF ck \in DOMAIN retrieved THEN retrieved[ck][1] ELSE ""]

\* computedClassParameters: the local keys, each with the first retrieved
\* value or "", dnsptr dropped from what was retrieved
computedClassParameters(current, encoded) ==
    LET parsed    == ParseQuery(encoded)
        retrieved == IF "dnsptr" \in DOMAIN parsed
                     THEN DeleteKey(parsed, "dnsptr") ELSE parsed
    IN  [ck \in DOMAIN current |->
            IF ck \in DOMAIN retrieved THEN retrieved[ck][1] ELSE ""]

\* the fields Read and Import set on a status-200 answer
dnsforwardzoneSetFields(rd, o) ==
    LET r1 == Set(Set(Set(rd, "dnsserver", o["dns_name"].v),
                      "dnsview", o["dnsview_name"].v),
                  "name", o["dnszone_name"].v)
        r2 == IF o["dnszone_forward"].v = <<>>
              THEN Set(r1, "forward", <<"n", "o", "n", "e">>)
              ELSE Set(r1, "forward", ToLower(o["dnszone_forward"].v))
        r3 == IF o["dnszone_forwarders"].v # <<>>
              THEN Set(r2, "forwarders",
                       toStringArrayInterface(
                           Split(TrimSuffix(o["dnszone_forwarders"].v, <<";">>), ";")))
              ELSE r2
        r4 == Set(r3, "class", o["dnszone_class_name"].v)
    IN  Set(r4, "class_parameters",
            computedClassParameters(r4.f.class_parameters,
                                    o["dnszone_class_parameters"].v))

resourcednsforwardzoneRead(rd, resp) ==
    IF resp.err # NoError THEN Failed(rd, FromErr(resp.err))
    ELSE IF resp.status = 200 /\ Len(resp.buf) > 0
    THEN IF dnsforwardzoneAsserted(resp.buf[1])
         THEN Ok(dnsforwardzoneSetFields(rd, resp.buf[1]))
         ELSE Panic(rd)
    ELSE Failed(rd, Diag("Unable to find DNS forward zone", <<rd.f.name>>, <<>>))

\* Import also asserts dnszone_type and writes it under "type", which is no
\* key of the schema, so nothing is set for it
resourcednsforwardzoneImportState(rd, resp) ==
    IF resp.err # NoError THEN Failed(rd, FromErr(resp.err))
    ELSE IF resp.status = 200 /\ Len(resp.buf) > 0
    THEN IF dnsforwardzoneAsserted(resp.buf[1]) /\ IsString(resp.buf[1], "dnszone_type")
         THEN Ok(dnsforwardzoneSetFields(rd, resp.buf[1]))
         ELSE Panic(rd)
    ELSE Failed(rd, Diag("Unable to find and import DNS forward zone (oid)", <<rd.id>>, <<>>))

(***************************************************************************)
(* The IP-MAC mapping resource (src/unnamed/part_001).  Its handlers end   *)
(* in "return diag.FromErr(err)", which is nil when err is nil.            *)
(***************************************************************************)
ipmacCreateRequest(rd) ==
    [verb |-> "put", path |-> "rest/ip_add",
     params |-> [site_name |-> rd.f.space, add_flag |-> "edit_only",
                 hostaddr  |-> rd.f.address, mac_addr |-> ToLower(rd.f.mac),
                 keep_class_parameters |-> "1"]]

ipmacDeleteRequest(rd) ==
    [verb |-> "put", path |-> "rest/ip_add",
     params |-> [site_name |-> rd.f.space, add_flag |-> "edit_only",
                 hostaddr  |-> rd.f.address, mac_addr |-> <<>>,
                 keep_class_parameters |-> "1"]]

ipmacInfoRequest(rd) ==
    [verb |-> "get", path |-> "rest/ip_address_info",
     params |-> [ip_id |-> rd.id]]

resourceipmacCreate(rd, resp) ==
    IF resp.err # NoError THEN Failed(rd, FromErr(resp.err))
    ELSE IF (resp.status = 200 \/ resp.status = 201) /\ Len(resp.buf) > 0
    THEN IF IsString(resp.buf[1], "ret_oid")
         THEN Ok(SetId(rd, resp.buf[1]["ret_oid"].v))
         ELSE Ok(rd)
    ELSE Failed(rd, Diag("Failed to create IP MAC association between",
                         <<rd.f.address, rd.f.mac>>, <<>>))

resourceipmacDelete(rd, resp) ==
    IF resp.err # NoError THEN Failed(rd, FromErr(resp.err))
    ELSE IF (resp.status = 200 \/ resp.status = 201) /\ Len(resp.buf) > 0
    THEN IF IsString(resp.buf[1], "ret_oid")
         THEN Ok(SetId(rd, ""))
         ELSE Ok(rd)
    ELSE Failed(rd, Diag("Failed to delete IP MAC association between",
                         <<rd.f.address, rd.f.mac>>, <<>>))

\* Read as it would be without its d.SetId("")
resourceipmacRead_NoUnset(rd, resp) ==
    IF resp.err # NoError THEN Failed(rd, FromErr(resp.err)) ELSE Ok(rd)

\* Read as it would be with its d.SetId("") after the "if err == nil" block
resourceipmacRead_UnsetAlways(rd, resp) ==
    IF resp.err # NoError THEN Failed(SetId(rd, ""), FromErr(resp.err))
    ELSE IF (resp.status = 200 \/ resp.status = 201) /\ Len(resp.buf) > 0
            /\ IsString(resp.buf[1], "mac_addr")
            /\ ToLower(resp.buf[1]["mac_addr"].v) = ToLower(rd.f.mac)
    THEN Ok(rd)
    ELSE Ok(SetId(rd, ""))

\* Read as it would be comparing the two addresses letter for letter
resourceipmacRead_CaseSensitive(rd, resp) ==
    IF resp.err # NoError THEN Failed(rd, FromErr(resp.err))
    ELSE IF (resp.status = 200 \/ resp.status = 201) /\ Len(resp.buf) > 0
            /\ IsString(resp.buf[1], "mac_addr")
            /\ resp.buf[1]["mac_addr"].v = rd.f.mac
    THEN Ok(rd)
    ELSE Ok(SetId(rd, ""))

resourceipmacRead(rd, resp) ==
    IF resp.err # NoError THEN Failed(rd, FromErr(resp.err))
    ELSE IF (resp.status = 200 \/ resp.status = 201) /\ Len(resp.buf) > 0
            /\ IsString(resp.buf[1], "mac_addr")
            /\ ToLower(resp.buf[1]["mac_addr"].v) = ToLower(rd.f.mac)
    THEN Ok(rd)
    ELSE Ok(SetId(rd, ""))

(***************************************************************************)
(* The appliance behind s.Request.  It keeps at most one object of each    *)
(* type: srv.pool, srv.zone and srv.ip are empty or hold one               *)
(* [oid, o], o being the object an info call returns.                      *)
(***************************************************************************)
ErrObject(msg) == [errmsg |-> Str(msg)]
OidObject(oid) == [ret_oid |-> Str(oid)]

Has(p, key) == key \in DOMAIN p
Param(p, key, default) == IF key \in DOMAIN p THEN p[key] ELSE default

Refused(s, n, msg) ==
    {[resp |-> Response(400, <<ErrObject(msg)>>), srv |-> s, issued |-> n]}

\* an object that is not there: no content, or a 404 with a message
NotFound(s, n) ==
    {[resp |-> r, srv |-> s, issued |-> n] :
        r \in {Response(204, <<>>), Response(404, <<ErrObject("not found")>>)}}

\* one answer per status, all with the same body and effect
Done(statuses, buf, s, n) ==
    {[resp |-> Response(st, buf), srv |-> s, issued |-> n] : st \in statuses}

\* rest/app_pool_add
ServePoolAdd(s, n, p) ==
    LET old    == IF Len(s.pool) > 0 THEN s.pool[1].o ELSE EmptyObject
        stored == [apppool_name        |-> Str(p.name),
                   appapplication_name |-> Str(p.appapplication_name),
                   appapplication_fqdn |-> Str(p.appapplication_fqdn),
                   apppool_type        |-> Str(p.type),
                   apppool_lb_mode     |-> Str(p.lb_mode),
                   apppool_affinity_state |-> Str(p.affinity_state),
                   apppool_affinity_session_time |->
                       IF Has(p, "affinity_session_time")
                       THEN Str(p.affinity_session_time)
                       ELSE Param(old, "apppool_affinity_session_time", Str(<<>>)),
                   apppool_best_active_nodes |->
                       IF Has(p, "best_active_nodes")
                       THEN Str(p.best_active_nodes) ELSE Str(<<>>)]
    IN  IF p.add_flag = "new_only"
        THEN IF Len(s.pool) > 0 \/ n >= MaxOid
             THEN Refused(s, n, "cannot be added")
             ELSE Done({201}, <<OidObject(ToString(n + 1))>>,
                       [s EXCEPT !.pool = <<[oid |-> ToString(n + 1), o |-> stored]>>],
                       n + 1)
        ELSE IF Len(s.pool) > 0 /\ s.pool[1].oid = p.apppool_id
             THEN Done({200}, <<OidObject(p.apppool_id)>>,
                       [s EXCEPT !.pool = <<[oid |-> p.apppool_id, o |-> stored]>>], n)
             ELSE Refused(s, n, "not found")

\* rest/dns_zone_add; a zone created without a view lives in the view "#"
ServeZoneAdd(s, n, p) ==
    LET old    == IF Len(s.zone) > 0 THEN s.zone[1].o ELSE EmptyObject
        stored == [dns_name           |-> Param(old, "dns_name", Str(Param(p, "dns_name", ""))),
                   dnsview_name       |-> Param(old, "dnsview_name",
                                                Str(Param(p, "dnsview_name", "#"))),
                   dnszone_name       |-> Param(old, "dnszone_name",
                                                Str(Param(p, "dnszone_name", ""))),
                   dnszone_type       |-> Str("forward"),
                   dnszone_class_name |-> Str(p.dnszone_class_name),
                   dnszone_forward    |-> Str(p.dnszone_forward),
                   dnszone_forwarders |-> Str(p.dnszone_forwarders),
                   dnszone_class_parameters |-> Str(p.dnszone_class_parameters)]
    IN  IF p.add_flag = "new_only"
        THEN IF Len(s.zone) > 0 \/ n >= MaxOid
             THEN Refused(s, n, "cannot be added")
             ELSE Done({201}, <<OidObject(ToString(n + 1))>>,
                       [s EXCEPT !.zone = <<[oid |-> ToString(n + 1), o |-> stored]>>],
                       n + 1)
        ELSE IF Len(s.zone) > 0 /\ s.zone[1].oid = p.dnszone_id
             THEN Done({200}, <<OidObject(p.dnszone_id)>>,
                       [s EXCEPT !.zone = <<[oid |-> p.dnszone_id, o |-> stored]>>], n)
             ELSE Refused(s, n, "not found")

\* rest/ip_add with edit_only: sets the MAC of an address that exists
ServeIpAdd(s, n, p) ==
    IF Len(s.ip) > 0 /\ s.ip[1].o["site_name"].v = p.site_name
       /\ s.ip[1].o["hostaddr"].v = p.hostaddr
    THEN Done({200, 201}, <<OidObject(s.ip[1].oid)>>,
              [s EXCEPT !.ip[1].o["mac_addr"] = Str(p.mac_addr)], n)
    ELSE Refused(s, n, "not found")

\* rest/app_pool_delete and rest/dns_zone_delete
ServeDelete(s, n, slot, id) ==
    IF Len(s[slot]) > 0 /\ s[slot][1].oid = id
    THEN Done({200}, <<OidObject(id)>>, [s EXCEPT ![slot] = <<>>], n)
         \cup Done({204}, <<>>, [s EXCEPT ![slot] = <<>>], n)
    ELSE Refused(s, n, "not found")

\* rest/app_pool_info, rest/dns_zone_info and rest/ip_address_info
ServeInfo(s, n, slot, id) ==
    IF Len(s[slot]) > 0 /\ s[slot][1].oid = id
    THEN Done({200}, <<s[slot][1].o>>, s, n)
    ELSE NotFound(s, n)

\* the answers of an appliance that does what it is asked
Serve(s, n, req) ==
    CASE req.path = "rest/app_pool_add"       -> ServePoolAdd(s, n, req.params)
      [] req.path = "rest/dns_zone_add"       -> ServeZoneAdd(s, n, req.params)
      [] req.path = "rest/ip_add"             -> ServeIpAdd(s, n, req.params)
      [] req.path = "rest/app_pool_delete"    -> ServeDelete(s, n, "pool", req.params.apppool_id)
      [] req.path = "rest/dns_zone_delete"    -> ServeDelete(s, n, "zone", req.params.dnszone_id)
      [] req.path = "rest/app_pool_info"      -> ServeInfo(s, n, "pool", req.params.apppool_id)
      [] req.path = "rest/dns_zone_info"      -> ServeInfo(s, n, "zone", req.params.dnszone_id)
      [] req.path = "rest/ip_address_info"    -> ServeInfo(s, n, "ip", req.params.ip_id)

\* the appliance fails without doing anything
Failures == {Response(500, <<>>), Response(500, <<ErrObject("internal error")>>)}

\* answers that claim success and do not follow the API
Malformed ==
    {Response(200, <<>>), Response(200, <<EmptyObject>>),
     Response(200, <<ErrObject("odd")>>), Response(200, <<[ret_oid |-> Num("7")]>>),
     Response(201, <<>>)}

\* the class parameters of a zone after another client of the appliance has
\* written them: a key twice, a key of its own and dnsptr
EditedClassParameters ==
    <<<<"env", "prod">>, <<"env", "test">>, <<"extra", "1">>, <<"dnsptr", "0">>>>

\* rest/dns_zone_info answered with such an object
Edited(s, req) ==
    IF req.path = "rest/dns_zone_info" /\ Len(s.zone) > 0
       /\ s.zone[1].oid = req.params.dnszone_id
    THEN {Response(200, <<[s.zone[1].o EXCEPT !["dnszone_class_parameters"] =
                                                  Str(EditedClassParameters)]>>)}
    ELSE {}

\* every outcome of s.Request: [resp, srv, issued, class]
Exchange(s, n, req) ==
    {[resp |-> x.resp, srv |-> x.srv, issued |-> x.issued, class |-> "served"] :
        x \in Serve(s, n, req)}
    \cup {[resp |-> r, srv |-> s, issued |-> n, class |-> "failure"] : r \in Failures}
    \cup {[resp |-> r, srv |-> s, issued |-> n, class |-> "malformed"] : r \in Malformed}
    \cup {[resp |-> r, srv |-> s, issued |-> n, class |-> "edited"] : r \in Edited(s, req)}
    \cup {[resp |-> TransportFailure("connection refused"), srv |-> s, issued |-> n,
           class |-> "transport"]}

(***************************************************************************)
(* The configurations Terraform hands to the handlers.                     *)
(***************************************************************************)
Kinds == {"apppool", "dnszone", "ipmac"}

\* the fields of an application pool that can change without a new object:
\* the defaults, affinity off and round-robin with values of their own for
\* the session duration and the best active nodes, and affinity with latency
PoolSettings ==
    {[lb_mode |-> "round-robin", affinity |-> FALSE,
      affinity_session_duration |-> 300, best_active_nodes |-> 1],
     [lb_mode |-> "round-robin", affinity |-> FALSE,
      affinity_session_duration |-> 600, best_active_nodes |-> 2],
     [lb_mode |-> "latency", affinity |-> TRUE,
      affinity_session_duration |-> 600, best_active_nodes |-> 2]}

PoolFields(c) ==
    [name |-> "pool1", application |-> "app1", fqdn |-> "app1.example.org",
     ip_version |-> "ipv4", lb_mode |-> c.lb_mode, affinity |-> c.affinity,
     affinity_session_duration |-> c.affinity_session_duration,
     best_active_nodes |-> c.best_active_nodes]

\* the first k forwarders: "1", "2", ...
ForwarderList(k) == [i \in 1..k |-> Itoa(i)]

\* the fields of a DNS forward zone that can change without a new object
ZoneSettings ==
    {[forward |-> <<"o", "n", "l", "y">>, forwarders |-> <<>>,
      class_parameters |-> EmptyObject],
     [forward |-> <<"O", "n", "l", "y">>, forwarders |-> ForwarderList(MaxForwarders),
      class_parameters |-> [env |-> "prod"]],
     [forward |-> <<"f", "i", "r", "s", "t">>, forwarders |-> ForwarderList(1),
      class_parameters |-> [dnsptr |-> "1", env |-> "prod"]]}

ZoneFields(view, c) ==
    [dnsserver |-> "ns1", dnsview |-> view, name |-> "example.org",
     forward |-> c.forward, forwarders |-> c.forwarders, class |-> "",
     class_parameters |-> c.class_parameters]

Macs == {<<"a", "b">>, <<"A", "B">>}

IpmacFields(mac) == [space |-> "s1", address |-> "10.0.0.1", mac |-> mac]

\* the address the appliance may already hold
IpObject ==
    [oid |-> "ip1",
     o   |-> [ip_id |-> Str("ip1"), site_name |-> Str("s1"),
              hostaddr |-> Str("10.0.0.1"), mac_addr |-> Str(<<>>)]]

\* a ResourceData with nothing set but its id, as an import starts from
ZeroFieldsOf(k) ==
    CASE k = "apppool" ->
           [name |-> "", application |-> "", fqdn |-> "", ip_version |-> "",
            lb_mode |-> "", affinity |-> FALSE, affinity_session_duration |-> 0,
            best_active_nodes |-> 0]
      [] k = "dnszone" ->
           [dnsserver |-> "", dnsview |-> "", name |-> "", forward |-> <<>>,
            forwarders |-> <<>>, class |-> "", class_parameters |-> EmptyObject]
      [] k = "ipmac" -> [space |-> "", address |-> "", mac |-> <<>>]

ZeroFields == ZeroFieldsOf(kind)

\* the ids a ResourceData other than d may carry: the oids handed out
KnownIds ==
    {ToString(i) : i \in 1..issued} \cup (IF kind = "ipmac" THEN {"ip1"} ELSE {})

\* the id an import is asked for: the managed object's, or one given by hand
ImportIds == IF d.id # "" THEN {d.id} ELSE {"1"}

NoRequest == [verb |-> "", path |-> "", params |-> EmptyObject]

\* no handlers running side by side
NoRun == <<>>

(***************************************************************************)
(* The state machine: one call of a handler per step.                      *)
(*   d      the ResourceData of the managed resource                       *)
(*   srv    the appliance's objects, issued the oids it has handed out     *)
(*   last   the call that has just returned: the ResourceData it got       *)
(*          (pre) and left (post), the request, the answer, the return     *)
(*   hist   what the run has been through: the ids deleted on the          *)
(*          appliance after their creation (gone), and the fields d had    *)
(*          at its creation while no Update or Delete has followed         *)
(*          (atCreate, empty or one element), and whether every answer so  *)
(*          far followed the API (trusted)                                 *)
(***************************************************************************)
Init ==
    /\ kind \in Kinds
    /\ version \in (IF kind = "apppool"
                    THEN {MinPoolVersion - 1, MinPoolVersion} ELSE {MinPoolVersion})
    /\ d \in [id : {""},
              f  : CASE kind = "apppool" -> {PoolFields(c) : c \in PoolSettings}
                     [] kind = "dnszone" ->
                          {ZoneFields(v, c) : v \in {"#", "internal"}, c \in ZoneSettings}
                     [] kind = "ipmac"   -> {IpmacFields(m) : m \in Macs}]
    /\ srv \in [pool : {<<>>}, zone : {<<>>},
                ip   : IF kind = "ipmac" THEN {<<>>, <<IpObject>>} ELSE {<<>>}]
    /\ issued = 0
    /\ last = [op |-> "none", other |-> FALSE, pre |-> d, post |-> d,
               req |-> NoRequest, sent |-> FALSE, resp |-> NoResponse,
               class |-> "none", result |-> "none", diag |-> NoDiag]
    /\ hist = [gone |-> {}, atCreate |-> <<>>, trusted |-> TRUE]
    /\ run = NoRun

\* the handler the provider has registered for the resource and the operation
HandleOf(k, ver, op, rd, resp) ==
    CASE k = "apppool" /\ op = "Create" -> resourceapplicationpoolCreate(rd, ver, resp)
      [] k = "apppool" /\ op = "Update" -> resourceapplicationpoolUpdate(rd, ver, resp)
      [] k = "apppool" /\ op = "Delete" -> resourceapplicationpoolDelete(rd, ver, resp)
      [] k = "apppool" /\ op = "Read"   -> resourceapplicationpoolRead(rd, ver, resp)
      [] k = "apppool" /\ op = "Import" -> resourceapplicationpoolImportState(rd, ver, resp)
      [] k = "dnszone" /\ op = "Create" -> resourcednsforwardzoneCreate(rd, resp)
      [] k = "dnszone" /\ op = "Update" -> resourcednsforwardzoneUpdate(rd, resp)
      [] k = "dnszone" /\ op = "Delete" -> resourcednsforwardzoneDelete(rd, resp)
      [] k = "dnszone" /\ op = "Read"   -> resourcednsforwardzoneRead(rd, resp)
      [] k = "dnszone" /\ op = "Import" -> resourcednsforwardzoneImportState(rd, resp)
      [] k = "ipmac"   /\ op = "Create" -> resourceipmacCreate(rd, resp)
      [] k = "ipmac"   /\ op = "Delete" -> resourceipmacDelete(rd, resp)
      [] k = "ipmac"   /\ op = "Read"   -> resourceipmacRead(rd, resp)

Handle(op, rd, resp) == HandleOf(kind, version, op, rd, resp)

\* one call: the request goes out unless the handler returns before it
\* (sends), the handler decides on the answer; a call on another
\* ResourceData (other) leaves d alone
Call(op, other, rd, req, sends) ==
    \E x \in (IF sends THEN Exchange(srv, issued, req)
              ELSE {[resp |-> NoResponse, srv |-> srv, issued |-> issued,
                     class |-> "none"]}) :
        LET out == Handle(op, rd, x.resp)
        IN  /\ d' = IF other THEN d ELSE out.d
            /\ srv' = x.srv
            /\ issued' = x.issued
            /\ last' = [op |-> op, other |-> other, pre |-> rd, post |-> out.d,
                        req |-> req, sent |-> sends, resp |-> x.resp,
                        class |-> x.class, result |-> out.result, diag |-> out.diag]
            /\ hist' = LET done == ~other /\ out.result = "ok" /\ x.class = "served"
                       IN  [gone |->
                               IF done /\ op = "Delete" /\ rd.id # ""
                               THEN hist.gone \cup {rd.id}
                               ELSE IF done /\ op = "Create"
                               THEN hist.gone \ {out.d.id}
                               ELSE hist.gone,
                            atCreate |->
                               IF done /\ op = "Create" THEN <<rd.f>>
                               ELSE IF ~other /\ op \in {"Update", "Delete"} THEN <<>>
                               ELSE hist.atCreate,
                            trusted |-> hist.trusted /\ x.class # "malformed"]
            /\ UNCHANGED <<kind, version, run>>

ApplicationPoolCreate ==
    /\ kind = "apppool"
    /\ Call("Create", FALSE, d, applicationpoolCreateRequest(d),
            version >= MinPoolVersion)

ApplicationPoolUpdate ==
    /\ kind = "apppool"
    /\ \E c \in PoolSettings :
          LET rd == [d EXCEPT !.f = PoolFields(c)]
          IN  Call("Update", FALSE, rd, applicationpoolUpdateRequest(rd),
                   version >= MinPoolVersion)

ApplicationPoolDelete ==
    /\ kind = "apppool"
    /\ Call("Delete", FALSE, d, applicationpoolDeleteRequest(d),
            version >= MinPoolVersion)

ApplicationPoolRead ==
    /\ kind = "apppool"
    /\ \E id \in {d.id} \cup KnownIds :
          LET rd == SetId(d, id)
          IN  Call("Read", id # d.id, rd, applicationpoolInfoRequest(rd),
                   version >= MinPoolVersion)

ApplicationPoolImportState ==
    /\ kind = "apppool"
    /\ \E id \in ImportIds :
          LET rd == [id |-> id, f |-> ZeroFields]
          IN  Call("Import", TRUE, rd, applicationpoolInfoRequest(rd),
                   version >= MinPoolVersion)

DnsForwardZoneCreate ==
    /\ kind = "dnszone"
    /\ Call("Create", FALSE, d, dnsforwardzoneCreateRequest(d), TRUE)

DnsForwardZoneUpdate ==
    /\ kind = "dnszone"
    /\ \E c \in ZoneSettings :
          LET rd == [d EXCEPT !.f = ZoneFields(d.f.dnsview, c)]
          IN  Call("Update", FALSE, rd, dnsforwardzoneUpdateRequest(rd), TRUE)

DnsForwardZoneDelete ==
    /\ kind = "dnszone"
    /\ Call("Delete", FALSE, d, dnsforwardzoneDeleteRequest(d), TRUE)

DnsForwardZoneRead ==
    /\ kind = "dnszone"
    /\ \E id \in {d.id} \cup KnownIds :
          LET rd == SetId(d, id)
          IN  Call("Read", id # d.id, rd, dnsforwardzoneInfoRequest(rd), TRUE)

DnsForwardZoneImportState ==
    /\ kind = "dnszone"
    /\ \E id \in ImportIds :
          LET rd == [id |-> id, f |-> ZeroFields]
          IN  Call("Import", TRUE, rd, dnsforwardzoneInfoRequest(rd), TRUE)

IpmacCreate ==
    /\ kind = "ipmac"
    /\ Call("Create", FALSE, d, ipmacCreateRequest(d), TRUE)

IpmacDelete ==
    /\ kind = "ipmac"
    /\ Call("Delete", FALSE, d, ipmacDeleteRequest(d), TRUE)

IpmacRead ==
    /\ kind = "ipmac"
    /\ \E id \in {d.id} \cup KnownIds, mac \in Macs :
          LET rd == [id |-> id, f |-> [d.f EXCEPT !.mac = mac]]
          IN  Call("Read", rd # d, rd, ipmacInfoRequest(rd), TRUE)

Next ==
    \/ ApplicationPoolCreate
    \/ ApplicationPoolUpdate
    \/ ApplicationPoolDelete
    \/ ApplicationPoolRead
    \/ ApplicationPoolImportState
    \/ DnsForwardZoneCreate
    \/ DnsForwardZoneUpdate
    \/ DnsForwardZoneDelete
    \/ DnsForwardZoneRead
    \/ DnsForwardZoneImportState
    \/ IpmacCreate
    \/ IpmacDelete
    \/ IpmacRead

Spec == Init /\ [][Next]_vars

(***************************************************************************)
(* Two handlers side by side: an application pool and a DNS forward zone,  *)
(* each with a ResourceData of its own, sharing the provider's meta (the   *)
(* version, the session behind s.Request) and the appliance.  A call is    *)
(* three steps: the handler builds its parameters and sends the request,   *)
(* the appliance answers it, the handler decides on the answer and         *)
(* returns.  run[k] is what instance k is at:                              *)
(*   d     the instance's ResourceData as Terraform keeps it               *)
(*   pc    "idle", "sent", "answered" or "done"                            *)
(*   rd    the ResourceData the running handler holds, pre what it held    *)
(*         when it was called, held what d was then                        *)
(*   req, resp   the request and its answer, both gone at the return       *)
(*   out   what the handler returned                                       *)
(*   overlap  the other instance was between request and return when this  *)
(*         one's answer came                                               *)
(***************************************************************************)
Running == {"apppool", "dnszone"}

NoOut(rd) == [d |-> rd, result |-> "none", diag |-> NoDiag]

\* the request each handler builds
RequestOf(k, op, rd) ==
    CASE k = "apppool" /\ op = "Create" -> applicationpoolCreateRequest(rd)
      [] k = "apppool" /\ op = "Update" -> applicationpoolUpdateRequest(rd)
      [] k = "apppool" /\ op = "Delete" -> applicationpoolDeleteRequest(rd)
      [] k = "apppool" /\ op \in {"Read", "Import"} -> applicationpoolInfoRequest(rd)
      [] k = "dnszone" /\ op = "Create" -> dnsforwardzoneCreateRequest(rd)
      [] k = "dnszone" /\ op = "Update" -> dnsforwardzoneUpdateRequest(rd)
      [] k = "dnszone" /\ op = "Delete" -> dnsforwardzoneDeleteRequest(rd)
      [] k = "dnszone" /\ op \in {"Read", "Import"} -> dnsforwardzoneInfoRequest(rd)

\* the fields the two instances are configured with, which an Update sends
\* again
RunFields(k) ==
    IF k = "apppool" THEN {PoolFields(c) : c \in {s \in PoolSettings : s.affinity}}
    ELSE {ZoneFields("#", c) : c \in {s \in ZoneSettings : s.forwarders = <<>>}}

\* the answers followed here: the appliance's own, its failures, a
\* transport error
RunAnswers(s, n, req) ==
    {x \in Exchange(s, n, req) : x.class \in {"served", "failure", "transport"}}

\* the zone instance's object, on the appliance since an earlier run
PriorZone(f) ==
    LET made == CHOOSE x \in ServeZoneAdd([pool |-> <<>>, zone |-> <<>>, ip |-> <<>>], 0,
                                           dnsforwardzoneCreateRequest([id |-> "", f |-> f]).params) :
                    x.resp.status = 201
    IN  [made.srv.zone[1] EXCEPT !.oid = "z1"]

Idle(rd) ==
    [d |-> rd, pc |-> "idle", op |-> "none", other |-> FALSE, held |-> rd,
     rd |-> rd, pre |-> rd, req |-> NoRequest, resp |-> NoResponse,
     out |-> NoOut(rd), overlap |-> FALSE]

ConcInit ==
    /\ kind = "apppool"
    /\ version = MinPoolVersion
    /\ d = [id |-> "", f |-> ZeroFieldsOf("apppool")]
    /\ issued = 0
    /\ last = [op |-> "none", other |-> FALSE, pre |-> d, post |-> d,
               req |-> NoRequest, sent |-> FALSE, resp |-> NoResponse,
               class |-> "none", result |-> "none", diag |-> NoDiag]
    /\ hist = [gone |-> {}, atCreate |-> <<>>, trusted |-> TRUE]
    /\ \E p \in RunFields("apppool"), z \in RunFields("dnszone") :
          /\ srv = [pool |-> <<>>, zone |-> <<PriorZone(z)>>, ip |-> <<>>]
          /\ run = [k \in Running |->
                       IF k = "apppool" THEN Idle([id |-> "", f |-> p])
                       ELSE Idle([id |-> "z1", f |-> z])]

\* a handler as it would be writing through a ResourceData all instances share
Returned_SharedData(r, k, out) ==
    [j \in DOMAIN r |->
        IF j = k
        THEN [r[k] EXCEPT !.pc = "done", !.rd = out.d, !.pre = out.d, !.out = out,
                          !.req = NoRequest, !.resp = NoResponse,
                          !.d = IF r[k].other THEN @ ELSE out.d,
                          !.held = IF r[k].other THEN @ ELSE out.d]
        ELSE [r[j] EXCEPT !.d.id = out.d.id, !.rd.id = out.d.id]]

\* a handler returns: what it did went to the ResourceData it was given
Returned(r, k, out) ==
    [r EXCEPT ![k] = [@ EXCEPT !.pc = "done", !.rd = out.d, !.pre = out.d, !.out = out,
                               !.req = NoRequest, !.resp = NoResponse,
                               !.d = IF r[k].other THEN @ ELSE out.d,
                               !.held = IF r[k].other THEN @ ELSE out.d]]

\* a handler is called on rd and runs up to s.Request, or to its return when
\* it returns before
Invoke(k, op, other, rd) ==
    /\ run[k].pc \in {"idle", "done"}
    /\ LET held  == IF other THEN run[k].d ELSE rd
           begun == [run[k] EXCEPT !.op = op, !.other = other, !.d = held,
                                   !.held = held, !.rd = rd, !.pre = rd,
                                   !.req = RequestOf(k, op, rd),
                                   !.resp = NoResponse, !.out = NoOut(rd),
                                   !.overlap = FALSE]
       IN  run' = IF k = "apppool" /\ version < MinPoolVersion
                  THEN Returned([run EXCEPT ![k] = begun], k,
                                HandleOf(k, version, op, rd, NoResponse))
                  ELSE [run EXCEPT ![k] = [begun EXCEPT !.pc = "sent"]]
    /\ UNCHANGED <<kind, version, d, srv, issued, last, hist>>

ConcCreate(k) == Invoke(k, "Create", FALSE, run[k].d)

ConcUpdate(k) ==
    \E f \in RunFields(k) : Invoke(k, "Update", FALSE, [run[k].d EXCEPT !.f = f])

ConcDelete(k) == Invoke(k, "Delete", FALSE, run[k].d)

ConcRead(k) == Invoke(k, "Read", FALSE, run[k].d)

ConcImportState(k) ==
    Invoke(k, "Import", TRUE,
           [id |-> IF run[k].d.id # "" THEN run[k].d.id ELSE "1", f |-> ZeroFieldsOf(k)])

\* the appliance, or the network, answers a request in flight
ConcAnswer(k) ==
    /\ run[k].pc = "sent"
    /\ \E x \in RunAnswers(srv, issued, run[k].req) :
          /\ srv' = x.srv
          /\ issued' = x.issued
          /\ run' = [run EXCEPT ![k].pc = "answered", ![k].resp = x.resp,
                                ![k].overlap = \E j \in Running \ {k} :
                                                  run[j].pc \in {"sent", "answered"}]
    /\ UNCHANGED <<kind, version, d, last, hist>>

\* the handler goes on from s.Request to its return
ConcReturn(k) ==
    /\ run[k].pc = "answered"
    /\ run' = Returned(run, k, HandleOf(k, version, run[k].op, run[k].rd, run[k].resp))
    /\ UNCHANGED <<kind, version, d, srv, issued, last, hist>>

ConcNext ==
    \E k \in Running :
        \/ ConcCreate(k)
        \/ ConcUpdate(k)
        \/ ConcDelete(k)
        \/ ConcRead(k)
        \/ ConcImportState(k)
        \/ ConcAnswer(k)
        \/ ConcReturn(k)

ConcSpec == ConcInit /\ [][ConcNext]_vars

(***************************************************************************)
(* Vocabulary of the properties: what the call that has just returned got  *)
(* and did.                                                                *)
(***************************************************************************)
\* the call issued its request and got an answer, not a transport error
Answered(op) == last.op = op /\ last.sent /\ last.resp.err = NoError

\* status 200 or 201, a non-empty array, a string ret_oid in its first element
OidAnswer(resp) ==
    /\ resp.status \in {200, 201}
    /\ Len(resp.buf) > 0
    /\ IsString(resp.buf[1], "ret_oid")

\* the first element of the array carries a string errmsg
HasErrmsg(resp) == Len(resp.buf) > 0 /\ IsString(resp.buf[1], "errmsg")

ReturnedError == last.result = "error" /\ last.diag # NoDiag

\* the id parameter of the resource's REST calls
IdParameter ==
    CASE kind = "apppool" -> "apppool_id"
      [] kind = "dnszone" -> "dnszone_id"
      [] kind = "ipmac"   -> "ip_id"

(***************************************************************************)
(* C1.  Create, answered without transport error, succeeds exactly on      *)
(* status 200/201 with a non-empty array whose first element has a string  *)
(* ret_oid, and then the local id is that ret_oid; on every other answer   *)
(* it returns a non-empty error and leaves the local id as it was.         *)
(* The IP-MAC mapping breaks it: a 200/201 answer without ret_oid ends in  *)
(* diag.FromErr(nil), a success with no id.                                *)
(***************************************************************************)
C1_CreateSucceedsOnlyWithOid ==
    Answered("Create") =>
        /\ last.result = "ok" <=> OidAnswer(last.resp)
        /\ OidAnswer(last.resp) => last.post.id = last.resp.buf[1]["ret_oid"].v
        /\ ~OidAnswer(last.resp) => ReturnedError /\ last.post.id = last.pre.id

(***************************************************************************)
(* C2.  A Read whose answer does not resolve the object (a status other    *)
(* than 200, an empty array, or an error message in the first element)     *)
(* returns an error and leaves the id and every field as they were.        *)
(* The IP-MAC mapping's Read returns nil and empties the id instead, and   *)
(* a status-200 error message makes the other two Reads panic.             *)
(***************************************************************************)
C2_FailedReadKeepsState ==
    (Answered("Read") /\ (\/ last.resp.status # 200
                          \/ Len(last.resp.buf) = 0
                          \/ HasErrmsg(last.resp)))
        => ReturnedError /\ last.post = last.pre

(***************************************************************************)
(* C3.  As claimed for every resource: Delete issues the delete verb for   *)
(* the local id and, answered without transport error, succeeds and        *)
(* empties the id exactly on status 200 or 204; any other status is an     *)
(* error that leaves the id.                                               *)
(***************************************************************************)
DeleteVerbContract ==
    /\ last.req.verb = "delete"
    /\ IdParameter \in DOMAIN last.req.params
    /\ last.req.params[IdParameter] = last.pre.id
    /\ (last.result = "ok" /\ last.post.id = "") <=> last.resp.status \in {200, 204}
    /\ last.resp.status \notin {200, 204} => ReturnedError /\ last.post.id = last.pre.id

C3_DeleteEveryResource == Answered("Delete") => DeleteVerbContract

(***************************************************************************)
(* C3 as amended: the application pool and the DNS forward zone keep the   *)
(* contract above; the IP-MAC mapping's Delete is the edit request (PUT    *)
(* rest/ip_add) with an empty mac_addr, empties the id exactly on status   *)
(* 200/201 with a string ret_oid, leaves it otherwise, and returns an      *)
(* error on any other status and on an empty array.                        *)
(***************************************************************************)
C3_DeletePerResource ==
    Answered("Delete") =>
        IF kind \in {"apppool", "dnszone"}
        THEN DeleteVerbContract
        ELSE /\ last.req.verb = "put" /\ last.req.path = "rest/ip_add"
             /\ last.req.params.add_flag = "edit_only"
             /\ last.req.params.mac_addr = <<>>
             /\ last.req.params.hostaddr = last.pre.f.address
             /\ OidAnswer(last.resp) => last.result = "ok" /\ last.post.id = ""
             /\ ~OidAnswer(last.resp) => last.post.id = last.pre.id
             /\ (last.resp.status \notin {200, 201} \/ Len(last.resp.buf) = 0)
                    => ReturnedError

\* a Delete of each kind has emptied an id that was set
C3_Witness ==
    /\ last.op = "Delete" /\ last.result = "ok"
    /\ last.pre.id # "" /\ last.post.id = "" /\ d.id = ""
    /\ \/ kind = "dnszone" /\ last.resp.status = 204
       \/ kind = "ipmac" /\ last.resp.status = 201

(***************************************************************************)
(* C4.  As claimed for every resource: once an object made by a            *)
(* successful Create has been deleted by a successful Delete, a Read of    *)
(* its id that the appliance answers returns an error.                     *)
(***************************************************************************)
ReadOfDeleted == last.op = "Read" /\ last.sent /\ last.pre.id \in hist.gone

Logical(f) == IF kind = "dnszone" THEN [f EXCEPT !.forward = ToLower(@)] ELSE f

C5_CreateReadRoundTrip ==
    (/\ kind \in {"apppool", "dnszone"}
     /\ last.op = "Read" /\ ~last.other /\ last.result = "ok"
     /\ last.class = "served" /\ hist.atCreate # <<>>)
        => Logical(last.post.f) = Logical(hist.atCreate[1])

(***************************************************************************)
(* C6.  For the application pool and the DNS forward zone, Import and      *)
(* Read given the same ResourceData and the same answer succeed together   *)
(* and leave the same fields.                                              *)
(* The application pool's Import writes "affinity_state", no key of the    *)
(* schema, so affinity keeps its old value, and it sets best_active_nodes  *)
(* to 0 where Read leaves it.                                              *)
(***************************************************************************)
ReadOf(rd, resp) ==
    IF kind = "apppool" THEN resourceapplicationpoolRead(rd, version, resp)
    ELSE resourcednsforwardzoneRead(rd, resp)

ImportOf(rd, resp) ==
    IF kind = "apppool" THEN resourceapplicationpoolImportState(rd, version, resp)
    ELSE resourcednsforwardzoneImportState(rd, resp)

C6_ImportLikeRead ==
    (kind \in {"apppool", "dnszone"} /\ last.op \in {"Read", "Import"} /\ last.sent)
        => LET r == ReadOf(last.pre, last.resp)
               i == ImportOf(last.pre, last.resp)
           IN  /\ r.result = "ok" <=> i.result = "ok"
               /\ r.result = "ok" => r.d.f = i.d.f

(***************************************************************************)
(* C7.  While the appliance follows its API, after every call the local    *)
(* id is set exactly when the remote object of this resource exists (for   *)
(* the IP-MAC mapping: the address holds the local MAC), and then it is    *)
(* that object's oid.                                                      *)
(* The IP-MAC mapping's Read breaks it: on a failure status it empties     *)
(* the id and returns nil while the mapping is still there.                *)
(***************************************************************************)
RemoteObject ==
    CASE kind = "apppool" -> srv.pool
      [] kind = "dnszone" -> srv.zone
      [] kind = "ipmac"   ->
           IF Len(srv.ip) > 0 /\ srv.ip[1].o["mac_addr"].v = ToLower(d.f.mac)
           THEN srv.ip ELSE <<>>

C7_IdTracksRemoteObject ==
    hist.trusted =>
        /\ d.id # "" <=> Len(RemoteObject) > 0
        /\ d.id # "" => d.id = RemoteObject[1].oid

(***************************************************************************)
(* C8.  A Create or Update answered without transport error and without    *)
(* success returns an error that carries the remote errmsg when the first  *)
(* array element has one, and the generic failure naming the object when   *)
(* it has none.                                                            *)
(* The IP-MAC mapping's Create never looks at errmsg.                      *)
(***************************************************************************)
C8_ErrorCarriesRemoteMessage ==
    (last.op \in {"Create", "Update"} /\ last.sent /\ last.resp.err = NoError
     /\ ~OidAnswer(last.resp))
        => /\ ReturnedError
           /\ last.diag.subject # <<>>
           /\ last.diag.remote = IF HasErrmsg(last.resp)
                                 THEN <<last.resp.buf[1]["errmsg"].v>> ELSE <<>>

(***************************************************************************)
(* C9.  Whatever the operation and the resource, a transport error of the  *)
(* request is returned as it is, and the id and the fields stay as they    *)
(* were.                                                                   *)
(***************************************************************************)
C9_TransportErrorVerbatim ==
    last.resp.err # NoError =>
        /\ last.result = "error"
        /\ last.diag = FromErr(last.resp.err)
        /\ last.post = last.pre
        /\ ~last.other => d = last.pre

\* a Read of an IP-MAC mapping with its id set has met a transport error
C9_Witness ==
    /\ kind = "ipmac" /\ last.op = "Read" /\ ~last.other
    /\ last.resp.err # NoError /\ last.pre.id # "" /\ d.id # ""

(***************************************************************************)
(* C10.  Update of the application pool and of the DNS forward zone sends  *)
(* the local id with add_flag edit_only; an Update that fails (transport   *)
(* error, status other than 200/201, empty array, missing ret_oid) returns *)
(* an error and leaves the id; a successful one leaves the id on the       *)
(* object it was on, the appliance answering an edit with the oid of the   *)
(* object edited.                                                          *)
(***************************************************************************)
C10_UpdateKeepsId ==
    last.op = "Update" =>
        /\ last.req.verb = "put"
        /\ last.req.params[IdParameter] = last.pre.id
        /\ last.req.params.add_flag = "edit_only"
        /\ (last.sent /\ (last.resp.err # NoError \/ ~OidAnswer(last.resp)))
              => ReturnedError /\ last.post.id = last.pre.id
        /\ last.result = "ok" =>
              /\ last.post.id = last.pre.id
              /\ Len(RemoteObject) > 0 /\ RemoteObject[1].oid = d.id

\* an Update has succeeded on an object created before
C10_Witness ==
    /\ last.op = "Update" /\ last.result = "ok"
    /\ last.pre.id # "" /\ d.id = last.pre.id /\ last.class = "served"

(***************************************************************************)
(* C11.  A Read of the IP-MAC mapping without transport error returns no   *)
(* error and leaves the ResourceData as it was exactly when the answer has *)
(* status 200 or 201 and a string mac_addr equal to the local mac without  *)
(* regard to letter case; on every other answer (a failure status, an      *)
(* empty array, no mac_addr, another MAC) the local id is emptied.  "As it *)
(* was exactly when" is about a ResourceData that has an id to lose.       *)
(***************************************************************************)
MacMatch ==
    /\ last.resp.status \in {200, 201}
    /\ Len(last.resp.buf) > 0
    /\ IsString(last.resp.buf[1], "mac_addr")
    /\ ToLower(last.resp.buf[1]["mac_addr"].v) = ToLower(last.pre.f.mac)

C11_IpmacReadRefresh ==
    (kind = "ipmac" /\ Answered("Read")) =>
        /\ MacMatch => (last.post = last.pre /\ last.result = "ok")
        /\ ~MacMatch => (last.post.id = "" /\ last.post.f = last.pre.f)
        /\ last.pre.id # "" =>
              ((last.post = last.pre /\ last.result = "ok") <=> MacMatch)

\* a Read has kept the id on a MAC the appliance writes in another case
C11_Witness ==
    /\ kind = "ipmac" /\ Answered("Read") /\ MacMatch
    /\ last.pre.id # "" /\ last.post.id = last.pre.id
    /\ last.resp.buf[1]["mac_addr"].v # last.pre.f.mac

\* a Read has emptied the id on another MAC than the local one
C11_WitnessOtherMac ==
    /\ kind = "ipmac" /\ Answered("Read") /\ ~MacMatch
    /\ last.resp.status = 200 /\ Len(last.resp.buf) > 0
    /\ IsString(last.resp.buf[1], "mac_addr")
    /\ last.pre.id # "" /\ last.post.id = ""

(***************************************************************************)
(* C12.  After a successful Read of a DNS forward zone the local           *)
(* forwarders are the appliance's list, rebuilt from its ";"-delimited     *)
(* string, the empty list when the string is empty.                        *)
(* Read writes the field only when the string is not empty, so with an     *)
(* empty string the list from before the Read stays.                       *)
(***************************************************************************)
ServerForwarders(text) ==
    IF text = <<>> THEN <<>> ELSE Split(TrimSuffix(text, <<";">>), ";")

ZoneReadDone == kind = "dnszone" /\ Answered("Read") /\ last.result = "ok"

C12_ReadRebuildsForwarders ==
    ZoneReadDone =>
        last.post.f.forwarders = ServerForwarders(last.resp.buf[1]["dnszone_forwarders"].v)

(***************************************************************************)
(* C13.  After a successful Read of a DNS forward zone, class_parameters   *)
(* has the keys it had before the Read and no other: a key takes the first *)
(* value the appliance has for it, "" when the appliance has none, and     *)
(* dnsptr takes "" whatever the appliance has.  The same holds for Import. *)
(***************************************************************************)
\* the first value of key k in a query string, "" when k is not in it
FirstValue(query, k) ==
    LET hits == SelectSeq(query, LAMBDA p : p[1] = k)
    IN  IF hits = <<>> THEN "" ELSE hits[1][2]

ServerClassParameters == last.resp.buf[1]["dnszone_class_parameters"].v

C13_ClassParametersKeepLocalKeys ==
    (kind = "dnszone" /\ last.op \in {"Read", "Import"} /\ last.sent
     /\ last.resp.err = NoError /\ last.result = "ok") =>
        /\ DOMAIN last.post.f.class_parameters = DOMAIN last.pre.f.class_parameters
        /\ \A k \in DOMAIN last.pre.f.class_parameters :
              last.post.f.class_parameters[k] =
                  IF k = "dnsptr" THEN "" ELSE FirstValue(ServerClassParameters, k)

\* a Read has refreshed local dnsptr and env against an appliance holding
\* dnsptr, env twice and a key of its own
C13_Witness ==
    /\ ZoneReadDone
    /\ DOMAIN last.pre.f.class_parameters = {"dnsptr", "env"}
    /\ last.pre.f.class_parameters["dnsptr"] # ""
    /\ ServerClassParameters = EditedClassParameters
    /\ last.post.f.class_parameters["env"] = "prod"

(***************************************************************************)
(* C15.  On an appliance older than version 710 every operation of the     *)
(* application pool returns the not-supported error, sends no request and  *)
(* leaves the id and the fields of its ResourceData as they were.          *)
(***************************************************************************)
OldAppliance == kind = "apppool" /\ version < MinPoolVersion /\ last.op # "none"

C15_OldVersionNotSupported ==
    OldAppliance =>
        /\ last.result = "error"
        /\ last.diag \in {NotSupported, ImportNotSupported}
        /\ ~last.sent /\ last.req.path # "" /\ last.resp = NoResponse
        /\ last.post = last.pre
        /\ srv.pool = <<>> /\ issued = 0

\* an Import has been refused on an old appliance
C15_Witness == OldAppliance /\ last.op = "Import" /\ last.pre.id # ""

\* a Delete has been refused on an old appliance
C15_WitnessDelete == OldAppliance /\ last.op = "Delete"

(***************************************************************************)
(* C16.  Read and Import of the application pool and of the DNS forward    *)
(* zone return, with success or with an error, on every answer; a status   *)
(* 200 answer whose first element lacks a tracked field, such as an object *)
(* with errmsg alone, gives the not-found error.                           *)
(* The handlers read the fields with buf[0][key].(string), which panics on *)
(* a key that is missing.                                                  *)
(***************************************************************************)
C16_ReadAlwaysReturns ==
    (kind \in {"apppool", "dnszone"} /\ last.op \in {"Read", "Import"}) =>
        /\ last.result \in {"ok", "error"}
        /\ (last.sent /\ last.resp.err = NoError /\ last.resp.status = 200
            /\ Len(last.resp.buf) > 0 /\ HasErrmsg(last.resp))
              => (ReturnedError /\ last.post = last.pre)

====
